---- MODULE Spec2Model ----
(***************************************************************************)
(* A model of libc/malloc_debug/MapData.cpp: the table of memory mappings  *)
(* read from /proc/self/maps, the lazy validation of a mapping as an ELF   *)
(* image, the computation of its load bias, and MapData::find, called by   *)
(* several threads under the table's mutex.                                *)
(*                                                                         *)
(* Addresses are uintptr_t values of AddrBits bits; every sum or           *)
(* difference of addresses is taken modulo 2^AddrBits.                     *)
(***************************************************************************)
EXTENDS Integers, Sequences, FiniteSets, TLC

(* ------------------------------------------------------------------ *)
(* Widths and the constants of <elf.h> and <sys/mman.h> the code uses  *)
(* ------------------------------------------------------------------ *)

\* Width of uintptr_t in the model (the code builds with 32 or 64).
AddrBits == 16

AddrMod == 2 ^ AddrBits

Wrap(x) == x % AddrMod

PROT_READ == 1

PROT_EXEC == 4

SELFMAG == 4

PT_LOAD == 1

\* The word the bytes of ELFMAG form when read as an ElfW(Word).
ELFMAG_WORD == 1179403647

\* offsetof(ElfW(Ehdr), e_phnum), offsetof(ElfW(Ehdr), e_phoff) (ELF64).
OFF_e_phnum == 56

OFF_e_phoff == 32

\* offsetof(ElfW(Phdr), p_type), p_offset, p_vaddr and sizeof(ElfW(Phdr)).
OFF_p_type == 0

OFF_p_offset == 8

OFF_p_vaddr == 16

SIZEOF_Phdr == 56

\* sizeof(ElfW(Half)), sizeof(ElfW(Word)), sizeof(ElfW(Off)), sizeof(ElfW(Addr)).
SIZEOF_Half == 2

SIZEOF_Word == 4

SIZEOF_Off == 8

SIZEOF_Addr == 8

(* ------------------------------------------------------------------ *)
(* Bounds of the model                                                 *)
(* ------------------------------------------------------------------ *)

\* How many calls of find the threads make in one behaviour.
MaxCalls == 2

Threads == {"t1", "t2"}

(* ------------------------------------------------------------------ *)
(* The process image: memory contents and the texts of /proc/self/maps *)
(* ------------------------------------------------------------------ *)

\* A field of a line that sscanf's %x cannot convert.
NotHex == -1

R__P == <<"r", "-", "-", "p">>

R_XP == <<"r", "-", "x", "p">>

RW_P == <<"r", "w", "-", "p">>

___P == <<"-", "-", "-", "p">>

Line(s, e, p, o, n) == [start |-> s, end |-> e, perms |-> p, offset |-> o, name |-> n]

\* /lib/x.so: 1000-2000 r--p 0 and 2000-3000 r-xp 1000.
X_ro == Line(4096, 8192, R__P, 0, "/lib/x.so")

X_rx == Line(8192, 12288, R_XP, 4096, "/lib/x.so")

\* /lib/y.so, an image that starts at offset 1000h of its file:
\* 4000-5000 r--p 1000 and 5000-6000 r-xp 2000.
Y_ro == Line(16384, 20480, R__P, 4096, "/lib/y.so")

Y_rx == Line(20480, 24576, R_XP, 8192, "/lib/y.so")

\* /lib/z.so: 8000-9000 r-xp 0, an image mapped in one piece.
Z_rx == Line(32768, 36864, R_XP, 0, "/lib/z.so")

\* /lib/w.so: a000-b000 r--p 0 and b000-c000 r-xp 1000; a000 holds no ELF header.
W_ro == Line(40960, 45056, R__P, 0, "/lib/w.so")

W_rx == Line(45056, 49152, R_XP, 4096, "/lib/w.so")

\* An anonymous unreadable region 6000-7000 ---p.
Guard == Line(24576, 28672, ___P, 0, "")

\* An older mapping 1800-2800 r-xp of another file, overlapping both halves of x.so.
Old_rx == Line(6144, 10240, R_XP, 0, "/lib/old.so")

\* Anonymous memory 5000-5800 rw-p 2000 where y.so's code was, once y.so's
\* executable half is unmapped.
Anon == Line(20480, 22528, RW_P, 8192, "")

\* /lib/u.so: e000-f000 r-xp 0, an image whose header gives an e_phoff that
\* puts the program headers at the last word of the address space.
U_rx == Line(57344, 61440, R_XP, 0, "/lib/u.so")

\* A line for the last bytes of the address space, fffd-ffff r--p: the
\* first SELFMAG bytes from its start run past the last address.
Top == Line(65533, 65535, R__P, 0, "/lib/t.so")

\* A line for two bytes, 8800-8802 r--p, shorter than SELFMAG.
Tiny == Line(34816, 34818, R__P, 0, "/lib/s.so")

\* A line whose start address is not hexadecimal, and one whose end is not.
BadStart == Line(NotHex, 53248, R__P, 0, "/lib/v.so")

BadEnd == Line(53248, NotHex, R__P, 0, "/lib/v.so")

\* A well-formed line after a malformed one: d000-e000 rw-p.
After == Line(53248, 57344, RW_P, 0, "")

\* The texts the mapping source can show; each well-formed text is in
\* ascending order without overlaps, as the kernel prints it.
Texts ==
  << <<X_ro, X_rx>>,
     <<X_ro, X_rx, Y_ro, Y_rx, Guard, Z_rx, W_ro, W_rx>>,
     <<Old_rx, Y_ro, Anon, U_rx, Top>>,
     <<Z_rx, BadStart, After>>,
     <<Tiny, W_ro, W_rx, BadEnd, After>> >>

\* A line with its end below its start, c800-c400 r--p, and a line with
\* its end at its start, c000-c000 r--p: sscanf converts both.
Reversed == Line(51200, 50176, R__P, 0, "/lib/r.so")

Empty == Line(49152, 49152, R__P, 0, "/lib/r.so")

\* Texts with lines the kernel does not print.
OddTexts ==
  << <<Z_rx, Empty, Reversed, After>> >>

AllTexts == Texts \o OddTexts

\* The mapping source cannot be opened.
Unavailable == 0

Sources == {Unavailable} \cup (1 .. Len(Texts))

AnySources == {Unavailable} \cup (1 .. Len(AllTexts))

\* Addresses holding the SELFMAG bytes of ELFMAG.
ElfAt == {4096, 16384, 32768, 34816, 57344, 65533}

\* The header fields in memory: address :> value. Every other address reads 0.
\*   x.so: e_phoff 40h, e_phnum 1, phdr[0] = (PT_LOAD, offset 1000h, vaddr 1000h)
\*   y.so: e_phoff 40h, e_phnum 2, phdr[0] = (PT_LOAD, offset 2000h, vaddr 1200h),
\*                                 phdr[1] = (PT_LOAD, offset 1000h, vaddr 0200h)
\*   z.so: e_phoff 40h, e_phnum 2, phdr[0] = (PT_LOAD, offset 0,     vaddr ff00h),
\*                                 phdr[1] = (PT_LOAD, offset 0,     vaddr 1234h)
\*   u.so: e_phoff 1ffch, e_phnum 1: phdr[0] is at e000h + 1ffch = fffch
Image ==
  (4096 + 32 :> 64) @@ (4096 + 56 :> 1) @@
  (4096 + 64 :> PT_LOAD) @@ (4096 + 72 :> 4096) @@ (4096 + 80 :> 4096) @@
  (16384 + 32 :> 64) @@ (16384 + 56 :> 2) @@
  (16384 + 64 :> PT_LOAD) @@ (16384 + 72 :> 8192) @@ (16384 + 80 :> 4608) @@
  (16384 + 120 :> PT_LOAD) @@ (16384 + 128 :> 4096) @@ (16384 + 136 :> 512) @@
  (32768 + 32 :> 64) @@ (32768 + 56 :> 2) @@
  (32768 + 64 :> PT_LOAD) @@ (32768 + 72 :> 0) @@ (32768 + 80 :> 65280) @@
  (32768 + 120 :> PT_LOAD) @@ (32768 + 128 :> 0) @@ (32768 + 136 :> 4660) @@
  (57344 + 32 :> 8188) @@ (57344 + 56 :> 1)

\* *reinterpret_cast<T*>(addr)
Deref(addr) ==
  IF addr \in DOMAIN Image THEN Image[addr]
  ELSE IF addr \in ElfAt THEN ELFMAG_WORD
  ELSE 0

\* memcmp(addr, ELFMAG, SELFMAG) == 0
HasMagic(addr) == addr \in ElfAt

\* The addresses the threads resolve.
\*   1000h the start of x.so, 2500h in x.so's code, 3000h its end (never mapped),
\*   4010h in y.so's header, 5500h in y.so's code, 6590h in the unreadable region,
\*   8800h in z.so, b3b0h in w.so's code, d2f0h in the region after a malformed line,
\*   e290h in u.so, fffeh in the last bytes of the address space
PCs == {4096, 9472, 12288, 16400, 21760, 26000, 34816, 46000, 54000, 58000, 65534}

(* ------------------------------------------------------------------ *)
(* MapEntry and the ordered set entries_                               *)
(* ------------------------------------------------------------------ *)

HasFlag(flags, bit) == (flags \div bit) % 2 = 1

\* MapEntry(start, end, offset, name, name_len, flags): the other fields
\* start as the header's member initialisers leave them.
MapEntry(start, end, offset, name, flags) ==
  [start |-> start, end |-> end, offset |-> offset, name |-> name,
   flags |-> flags, load_bias |-> 0, elf_start_offset |-> 0,
   init |-> FALSE, valid |-> FALSE]

\* The comparator of entries_: a is ordered before b; two entries neither
\* of which is before the other are the same key.
compare_entries(a, b) == a.end <= b.start

Min(S) == CHOOSE x \in S : \A y \in S : x <= y

\* std::set::lower_bound: the first position not ordered before key.
lower_bound(s, key) ==
  LET idx == {i \in 1 .. Len(s) : ~compare_entries(s[i], key)}
  IN  IF idx = {} THEN Len(s) + 1 ELSE Min(idx)

\* entries_.find(entry): the position of an equivalent entry, 0 for end().
set_find(s, key) ==
  LET i == lower_bound(s, key)
  IN  IF i <= Len(s) /\ ~compare_entries(key, s[i]) THEN i ELSE 0

\* entries_.insert(entry), for a key that has no equivalent in the set.
set_insert(s, key) ==
  LET i == lower_bound(s, key)
  IN  SubSeq(s, 1, i - 1) \o <<key>> \o SubSeq(s, i, Len(s))

\* entries_.find(&pc_entry) for the probe MapEntry(pc): the position of the
\* entry the probe is equivalent to, which is the one with pc in [start, end).
find_pc(s, pc) ==
  LET idx == {i \in 1 .. Len(s) : ~(s[i].end <= pc)}
      i   == IF idx = {} THEN Len(s) + 1 ELSE Min(idx)
  IN  IF i <= Len(s) /\ ~(pc < s[i].start) THEN i ELSE 0

(* ------------------------------------------------------------------ *)
(* parse_line                                                          *)
(* ------------------------------------------------------------------ *)

\* No entry: parse_line's nullptr.
NullEntry == [start |-> NotHex]

\* What sscanf returns: the number of fields converted before the first
\* one that does not match.
sscanf_count(line) ==
  IF line.start = NotHex THEN 0
  ELSE IF line.end = NotHex THEN 1
  ELSE IF line.perms = <<>> THEN 2
  ELSE IF line.offset = NotHex THEN 3
  ELSE 4

\* What the locals sscanf did not store may hold.
Junk == {[perms |-> ___P, offset |-> 0, name |-> ""],
         [perms |-> R_XP, offset |-> 4096, name |-> "?"]}

perm_flags(perms) ==
  (IF perms[1] = "r" THEN PROT_READ ELSE 0) + (IF perms[3] = "x" THEN PROT_EXEC ELSE 0)

\* A parse_line that leaves an unreadable entry to be initialised by init().
parse_line_lazy(line, junk) ==
  LET n      == sscanf_count(line)
      perms  == IF n >= 3 THEN line.perms ELSE junk.perms
      offset == IF n >= 4 THEN line.offset ELSE junk.offset
      name   == IF n >= 4 THEN line.name ELSE junk.name
  IN  IF n < 2 THEN NullEntry
      ELSE MapEntry(line.start, line.end, offset, name, perm_flags(perms))

\* A parse_line that passes the two addresses to MapEntry in the other order.
parse_line_swapped(line, junk) ==
  LET n      == sscanf_count(line)
      perms  == IF n >= 3 THEN line.perms ELSE junk.perms
      offset == IF n >= 4 THEN line.offset ELSE junk.offset
      name   == IF n >= 4 THEN line.name ELSE junk.name
      flags  == perm_flags(perms)
      entry  == MapEntry(line.end, line.start, offset, name, flags)
  IN  IF n < 2 THEN NullEntry
      ELSE IF ~HasFlag(flags, PROT_READ)
           THEN [entry EXCEPT !.load_bias = 0, !.init = TRUE, !.valid = FALSE]
           ELSE entry

parse_line(line, junk) ==
  LET n      == sscanf_count(line)
      perms  == IF n >= 3 THEN line.perms ELSE junk.perms
      offset == IF n >= 4 THEN line.offset ELSE junk.offset
      name   == IF n >= 4 THEN line.name ELSE junk.name
      flags  == perm_flags(perms)
      entry  == MapEntry(line.start, line.end, offset, name, flags)
  IN  IF n < 2 THEN NullEntry
      ELSE IF ~HasFlag(flags, PROT_READ)
           THEN [entry EXCEPT !.load_bias = 0, !.init = TRUE, !.valid = FALSE]
           ELSE entry

(* ------------------------------------------------------------------ *)
(* get_val, valid_elf, read_loadbias                                   *)
(* ------------------------------------------------------------------ *)

\* Whether get_val<T> with sizeof(T) = size reads addr.
get_val(entry, addr, size) ==
  /\ HasFlag(entry.flags, PROT_READ)
  /\ ~(addr < entry.start)
  /\ ~(Wrap(addr + size) > entry.end)
  /\ addr % size = 0

\* A valid_elf that adds SELFMAG to the start without the overflow test.
valid_elf_wrapping(entry) ==
  LET end == Wrap(entry.start + SELFMAG)
  IN  IF end >= entry.end THEN FALSE
      ELSE HasMagic(entry.start)

valid_elf(entry) ==
  LET end == entry.start + SELFMAG
  IN  IF end >= AddrMod \/ end >= entry.end THEN FALSE
      ELSE HasMagic(entry.start)

\* A walk that takes the first PT_LOAD header whatever its p_offset.
RECURSIVE phdr_walk_first_load(_, _, _, _)
phdr_walk_first_load(entry, addr, i, e_phnum) ==
  IF ~(i < e_phnum) THEN 0
  ELSE IF ~get_val(entry, Wrap(addr + OFF_p_type), SIZEOF_Word) THEN 0
  ELSE IF ~get_val(entry, Wrap(addr + OFF_p_offset), SIZEOF_Off) THEN 0
  ELSE IF Deref(Wrap(addr + OFF_p_type)) = PT_LOAD
       THEN IF ~get_val(entry, Wrap(addr + OFF_p_vaddr), SIZEOF_Addr) THEN 0
            ELSE Wrap(Deref(Wrap(addr + OFF_p_vaddr)))
       ELSE phdr_walk_first_load(entry, Wrap(addr + SIZEOF_Phdr), i + 1, e_phnum)

\* A walk that goes on after a matching header and keeps the last match.
RECURSIVE phdr_walk_last_match(_, _, _, _)
phdr_walk_last_match(entry, addr, i, e_phnum) ==
  IF ~(i < e_phnum) THEN 0
  ELSE IF ~get_val(entry, Wrap(addr + OFF_p_type), SIZEOF_Word) THEN 0
  ELSE IF ~get_val(entry, Wrap(addr + OFF_p_offset), SIZEOF_Off) THEN 0
  ELSE LET rest == phdr_walk_last_match(entry, Wrap(addr + SIZEOF_Phdr), i + 1, e_phnum)
       IN  IF /\ Deref(Wrap(addr + OFF_p_type)) = PT_LOAD
              /\ Deref(Wrap(addr + OFF_p_offset)) = entry.offset
              /\ rest = 0
           THEN IF ~get_val(entry, Wrap(addr + OFF_p_vaddr), SIZEOF_Addr) THEN 0
                ELSE Wrap(Deref(Wrap(addr + OFF_p_vaddr)))
           ELSE rest

\* The loop of read_loadbias from program header i on, addr the address of
\* that header: the load_bias it leaves.
RECURSIVE phdr_walk(_, _, _, _)
phdr_walk(entry, addr, i, e_phnum) ==
  IF ~(i < e_phnum) THEN 0
  ELSE IF ~get_val(entry, Wrap(addr + OFF_p_type), SIZEOF_Word) THEN 0
  ELSE IF ~get_val(entry, Wrap(addr + OFF_p_offset), SIZEOF_Off) THEN 0
  ELSE IF /\ Deref(Wrap(addr + OFF_p_type)) = PT_LOAD
          /\ Deref(Wrap(addr + OFF_p_offset)) = entry.offset
       THEN IF ~get_val(entry, Wrap(addr + OFF_p_vaddr), SIZEOF_Addr) THEN 0
            ELSE Wrap(Deref(Wrap(addr + OFF_p_vaddr)))
       ELSE phdr_walk(entry, Wrap(addr + SIZEOF_Phdr), i + 1, e_phnum)

\* The load_bias read_loadbias leaves in the entry.
read_loadbias(entry) ==
  LET addr == entry.start
  IN  IF ~get_val(entry, Wrap(addr + OFF_e_phnum), SIZEOF_Half) THEN 0
      ELSE IF ~get_val(entry, Wrap(addr + OFF_e_phoff), SIZEOF_Off) THEN 0
      ELSE phdr_walk(entry, Wrap(addr + Deref(Wrap(addr + OFF_e_phoff))), 0,
                     Deref(Wrap(addr + OFF_e_phnum)))

\* A read of size bytes at addr made by get_val or by memcmp while working
\* on the entry.
MemRead(entry, by, addr, size) ==
  [of |-> entry.start, by |-> by, addr |-> addr, size |-> size]

\* The memcmp of valid_elf: the reads it makes, in order.
valid_elf_reads(entry) ==
  LET end == entry.start + SELFMAG
  IN  IF end >= AddrMod \/ end >= entry.end THEN <<>>
      ELSE <<MemRead(entry, "memcmp", entry.start, SELFMAG)>>

\* The reads get_val makes in the loop of read_loadbias from program header
\* i on, in order.
RECURSIVE phdr_reads(_, _, _, _)
phdr_reads(entry, addr, i, e_phnum) ==
  IF ~(i < e_phnum) THEN <<>>
  ELSE IF ~get_val(entry, Wrap(addr + OFF_p_type), SIZEOF_Word) THEN <<>>
  ELSE <<MemRead(entry, "get_val", Wrap(addr + OFF_p_type), SIZEOF_Word)>> \o
    (IF ~get_val(entry, Wrap(addr + OFF_p_offset), SIZEOF_Off) THEN <<>>
     ELSE <<MemRead(entry, "get_val", Wrap(addr + OFF_p_offset), SIZEOF_Off)>> \o
       (IF /\ Deref(Wrap(addr + OFF_p_type)) = PT_LOAD
           /\ Deref(Wrap(addr + OFF_p_offset)) = entry.offset
        THEN IF ~get_val(entry, Wrap(addr + OFF_p_vaddr), SIZEOF_Addr) THEN <<>>
             ELSE <<MemRead(entry, "get_val", Wrap(addr + OFF_p_vaddr), SIZEOF_Addr)>>
        ELSE phdr_reads(entry, Wrap(addr + SIZEOF_Phdr), i + 1, e_phnum)))

\* The reads get_val makes in read_loadbias, in order.
loadbias_reads(entry) ==
  LET addr == entry.start
  IN  IF ~get_val(entry, Wrap(addr + OFF_e_phnum), SIZEOF_Half) THEN <<>>
      ELSE <<MemRead(entry, "get_val", Wrap(addr + OFF_e_phnum), SIZEOF_Half)>> \o
        (IF ~get_val(entry, Wrap(addr + OFF_e_phoff), SIZEOF_Off) THEN <<>>
         ELSE <<MemRead(entry, "get_val", Wrap(addr + OFF_e_phoff), SIZEOF_Off)>> \o
           phdr_reads(entry, Wrap(addr + Deref(Wrap(addr + OFF_e_phoff))), 0,
                      Deref(Wrap(addr + OFF_e_phnum))))

\* The bytes [addr, addr + size) of the read lie in the entry's [start, end).
InEntry(entry, r) == entry.start <= r.addr /\ r.addr + r.size <= entry.end

\* The reads up to the first one that leaves the entry's mapping, that one
\* included.
UpToWild(entry, rs) ==
  SubSeq(rs, 1, Min({k \in 1 .. Len(rs) : ~InEntry(entry, rs[k])}))

(* ------------------------------------------------------------------ *)
(* MapData::ReadMaps                                                   *)
(* ------------------------------------------------------------------ *)

\* A loop body that puts the fresh entry in the place of the stored one.
insert_entry_replacing(s, entry) ==
  IF set_find(s, entry) = 0 THEN set_insert(s, entry)
  ELSE [s EXCEPT ![set_find(s, entry)] = entry]

\* A loop body that inserts without looking for an equivalent entry.
insert_entry_always(s, entry) == set_insert(s, entry)

\* The body of the loop after parse_line: the entry is inserted unless the
\* set holds an equivalent one, and then it is deleted.
insert_entry(s, entry) ==
  IF set_find(s, entry) = 0 THEN set_insert(s, entry) ELSE s

\* A loop that steps over a line parse_line rejects and reads on.
RECURSIVE read_lines_skipping(_, _, _, _)
read_lines_skipping(s, lines, i, junk) ==
  IF i > Len(lines)
  THEN [entries |-> s,
        ok |-> \A k \in 1 .. Len(lines) : parse_line(lines[k], junk) # NullEntry]
  ELSE LET entry == parse_line(lines[i], junk)
       IN  read_lines_skipping(IF entry = NullEntry THEN s ELSE insert_entry(s, entry),
                               lines, i + 1, junk)

\* A loop that parses every line before it inserts any entry.
RECURSIVE read_lines_atomic(_, _, _, _)
read_lines_atomic(s, lines, i, junk) ==
  IF \E k \in i .. Len(lines) : parse_line(lines[k], junk) = NullEntry
  THEN [entries |-> s, ok |-> FALSE]
  ELSE IF i > Len(lines) THEN [entries |-> s, ok |-> TRUE]
  ELSE read_lines_atomic(insert_entry(s, parse_line(lines[i], junk)), lines, i + 1, junk)

\* The fgets loop from line i on: the set it leaves and what ReadMaps returns.
RECURSIVE read_lines(_, _, _, _)
read_lines(s, lines, i, junk) ==
  IF i > Len(lines) THEN [entries |-> s, ok |-> TRUE]
  ELSE LET entry == parse_line(lines[i], junk)
       IN  IF entry = NullEntry THEN [entries |-> s, ok |-> FALSE]
           ELSE read_lines(insert_entry(s, entry), lines, i + 1, junk)

ReadMaps(s, source, junk) ==
  IF source = Unavailable THEN [entries |-> s, ok |-> FALSE]
  ELSE read_lines(s, AllTexts[source], 1, junk)

(* ------------------------------------------------------------------ *)
(* The state                                                           *)
(* ------------------------------------------------------------------ *)

VARIABLES
  entries_,   \* MapData::entries_, in the order of the set
  m_,         \* MapData::m_: the thread holding the mutex, or NoThread
  th,         \* per thread: where it is in find, and find's locals
  calls       \* calls of find made so far

vars == <<entries_, m_, th, calls>>

NoThread == "none"

\* A thread outside find. The fields of a thread:
\*   at        where the thread is in find
\*   pc, want  find's arguments: pc, and rel_pc != nullptr
\*   it        the iterator: a position of entries_, 0 for entries_.end()
\*   tgt, next the entry init() is working on, and where find goes on after it
\*   miss1     the lookup of line 182 found nothing
\*   nfind     lookups made by this call
\*   nread     calls of ReadMaps made by this call
\*   source    what /proc/self/maps showed to this call's ReadMaps
\*   read      what the call of ReadMaps returned
\*   ret       the entry find returns: a position of entries_, 0 for nullptr
\*   rel_set, rel   whether *rel_pc was written, and the value
\*   reads     the reads of the process's memory this call has made
Idle ==
  [at |-> "idle", pc |-> 0, want |-> FALSE, it |-> 0, tgt |-> 0, next |-> "idle",
   miss1 |-> FALSE, nfind |-> 0, nread |-> 0, source |-> Unavailable, read |-> "none",
   ret |-> 0, rel_set |-> FALSE, rel |-> 0, reads |-> <<>>]

Init ==
  /\ entries_ = <<>>
  /\ m_ = NoThread
  /\ th = [t \in Threads |-> Idle]
  /\ calls = 0

(* ------------------------------------------------------------------ *)
(* MapData::find, step by step                                         *)
(* ------------------------------------------------------------------ *)

\* A thread calls find(pc, rel_pc) and builds the probe.
Call(t) ==
  /\ th[t].at = "idle"
  /\ calls < MaxCalls
  /\ \E p \in PCs, w \in BOOLEAN :
       th' = [th EXCEPT ![t] = [Idle EXCEPT !.at = "lock", !.pc = p, !.want = w]]
  /\ calls' = calls + 1
  /\ UNCHANGED <<entries_, m_>>

\* A lock that never blocks.
lock_free_always(t) == TRUE

\* std::lock_guard<std::mutex> lock(m_): blocks while another thread holds m_.
lock_free(t) == m_ = NoThread

Lock(t) ==
  /\ th[t].at = "lock"
  /\ lock_free(t)
  /\ m_' = t
  /\ th' = [th EXCEPT ![t].at = "find1"]
  /\ UNCHANGED <<entries_, calls>>

\* A find that refreshes whatever the first lookup finds.
after_find1_refreshing(i) == "readmaps"

\* Where find goes after the first lookup.
after_find1(i) == IF i = 0 THEN "readmaps" ELSE "find2"

\* it = entries_.find(&pc_entry); if (it == entries_.end()) ReadMaps();
Lookup1(t) ==
  /\ th[t].at = "find1"
  /\ LET i == find_pc(entries_, th[t].pc)
     IN  th' = [th EXCEPT ![t].it = i, ![t].miss1 = (i = 0),
                          ![t].nfind = @ + 1, ![t].at = after_find1(i)]
  /\ UNCHANGED <<entries_, m_, calls>>

\* A find that gives up after the refresh without looking again.
after_readmaps_no_retry == "ret"

\* Where find goes after ReadMaps: to the lookup of line 186.
after_readmaps == "find2"

\* ReadMaps(), its result ignored, on a source that shows one of sources.
ReadMapsFrom(t, sources) ==
  /\ th[t].at = "readmaps"
  /\ \E source \in sources, junk \in Junk :
       LET r == ReadMaps(entries_, source, junk)
       IN  /\ entries_' = r.entries
           /\ th' = [th EXCEPT ![t].nread = @ + 1,
                                ![t].source = source,
                                ![t].read = IF r.ok THEN "ok" ELSE "failed",
                                ![t].at = after_readmaps]
  /\ UNCHANGED <<m_, calls>>

\* The call of ReadMaps in find. The source shows what the process has
\* mapped at that moment: any of Sources.
DoReadMaps(t) == ReadMapsFrom(t, Sources)

\* The call of ReadMaps in find on a source that may also show a text with
\* lines the kernel does not print.
DoReadMapsAny(t) == ReadMapsFrom(t, AnySources)

\* A find that refreshes again whenever the lookup after a refresh misses.
after_find2_retry(i) == IF i = 0 THEN "readmaps" ELSE "init"

\* Where find goes after the second lookup.
after_find2(i) == IF i = 0 THEN "ret" ELSE "init"

\* it = entries_.find(&pc_entry); if (it == entries_.end()) return nullptr;
\* MapEntry* entry = *it; init(entry);
Lookup2(t) ==
  /\ th[t].at = "find2"
  /\ LET i == find_pc(entries_, th[t].pc)
     IN  th' = [th EXCEPT ![t].it = i, ![t].nfind = @ + 1,
                          ![t].ret = i,
                          ![t].tgt = i,
                          ![t].next = "relpc",
                          ![t].at = after_find2(i)]
  /\ UNCHANGED <<entries_, m_, calls>>

\* An init() that never takes the early return.
already_init_never(entry) == FALSE

\* The test of line 134.
already_init(entry) == entry.init

\* init(entry): if (entry->init) return; entry->init = true;
InitEntry(t) ==
  /\ th[t].at = "init"
  /\ LET e == entries_[th[t].tgt]
     IN  IF already_init(e)
         THEN /\ th' = [th EXCEPT ![t].at = th[t].next]
              /\ UNCHANGED entries_
         ELSE /\ entries_' = [entries_ EXCEPT ![th[t].tgt].init = TRUE]
              /\ th' = [th EXCEPT ![t].at = "valid"]
  /\ UNCHANGED <<m_, calls>>

\* if (valid_elf(entry)) { entry->valid = true;
ValidEntry(t) ==
  /\ th[t].at = "valid"
  /\ LET e == entries_[th[t].tgt]
     IN  IF valid_elf(e)
         THEN /\ entries_' = [entries_ EXCEPT ![th[t].tgt].valid = TRUE]
              /\ th' = [th EXCEPT ![t].at = "bias0",
                                   ![t].reads = @ \o valid_elf_reads(e)]
         ELSE /\ th' = [th EXCEPT ![t].at = th[t].next,
                                   ![t].reads = @ \o valid_elf_reads(e)]
              /\ UNCHANGED entries_
  /\ UNCHANGED <<m_, calls>>

\* read_loadbias(entry): entry->load_bias = 0;
BiasZero(t) ==
  /\ th[t].at = "bias0"
  /\ entries_' = [entries_ EXCEPT ![th[t].tgt].load_bias = 0]
  /\ th' = [th EXCEPT ![t].at = "bias"]
  /\ UNCHANGED <<m_, calls>>

\* read_loadbias(entry): the header walk. A read that get_val lets through
\* outside the entry's mapping dereferences an address the process may not
\* have mapped: the read yields whatever is there and the walk goes on, or
\* the thread takes a fault inside find, m_ held.
Bias(t) ==
  /\ th[t].at = "bias"
  /\ LET e  == entries_[th[t].tgt]
         rs == loadbias_reads(e)
     IN  \/ /\ entries_' = [entries_ EXCEPT ![th[t].tgt].load_bias = read_loadbias(e)]
            /\ th' = [th EXCEPT ![t].at = th[t].next, ![t].reads = @ \o rs]
         \/ /\ \E k \in 1 .. Len(rs) : ~InEntry(e, rs[k])
            /\ th' = [th EXCEPT ![t].at = "fault", ![t].reads = @ \o UpToWild(e, rs)]
            /\ UNCHANGED entries_
  /\ UNCHANGED <<m_, calls>>

\* pc - entry->start + entry->offset + bias, in uintptr_t.
rel_offset(pc, entry, bias) ==
  Wrap(Wrap(pc + AddrMod - entry.start) + entry.offset + bias)

\* The test of line 199 without the comparison of the names.
split_candidate_any_name(prev_entry, entry) ==
  /\ prev_entry.flags = PROT_READ
  /\ prev_entry.offset < entry.offset

\* The test of line 199 on the previous entry.
split_candidate(prev_entry, entry) ==
  /\ prev_entry.flags = PROT_READ
  /\ prev_entry.offset < entry.offset
  /\ prev_entry.name = entry.name

\* Whether line 197 looks at the previous entry.
looks_back(entry, i) == ~entry.valid /\ i # 1

\* if (rel_pc != nullptr) { if (!entry->valid && it != entries_.begin()) { ...
RelPc(t) ==
  /\ th[t].at = "relpc"
  /\ LET i     == th[t].it
         entry == entries_[i]
     IN  IF ~th[t].want
         THEN th' = [th EXCEPT ![t].at = "ret"]
         ELSE IF looks_back(entry, i) /\ split_candidate(entries_[i - 1], entry)
         THEN th' = [th EXCEPT ![t].it = i - 1, ![t].tgt = i - 1,
                               ![t].next = "borrow", ![t].at = "init"]
         ELSE th' = [th EXCEPT ![t].it = IF looks_back(entry, i) THEN i - 1 ELSE i,
                               ![t].rel_set = TRUE,
                               ![t].rel = rel_offset(th[t].pc, entry, entry.load_bias),
                               ![t].at = "ret"]
  /\ UNCHANGED <<entries_, m_, calls>>

\* Line 205 adding the entry's own bias.
borrowed_bias_own(prev_entry, entry) == entry.load_bias

\* The bias line 205 adds.
borrowed_bias(prev_entry, entry) == prev_entry.load_bias

\* A line 204 that also keeps the borrowed bias in the entry.
borrowed_into_caching(prev_entry, entry) ==
  [entry EXCEPT !.elf_start_offset = prev_entry.offset,
                !.load_bias = prev_entry.load_bias]

\* The entry as line 204 leaves it.
borrowed_into(prev_entry, entry) ==
  [entry EXCEPT !.elf_start_offset = prev_entry.offset]

\* if (prev_entry->valid) { entry->elf_start_offset = prev_entry->offset;
\* *rel_pc = ... + prev_entry->load_bias; return entry; } and line 210 otherwise.
Borrow(t) ==
  /\ th[t].at = "borrow"
  /\ LET i          == th[t].ret
         entry      == entries_[i]
         prev_entry == entries_[th[t].it]
     IN  IF prev_entry.valid
         THEN /\ entries_' = [entries_ EXCEPT ![i] = borrowed_into(prev_entry, entry)]
              /\ th' = [th EXCEPT ![t].rel_set = TRUE,
                          ![t].rel = rel_offset(th[t].pc, entry,
                                                borrowed_bias(prev_entry, entry)),
                          ![t].at = "ret"]
         ELSE /\ th' = [th EXCEPT ![t].rel_set = TRUE,
                          ![t].rel = rel_offset(th[t].pc, entry, entry.load_bias),
                          ![t].at = "ret"]
              /\ UNCHANGED entries_
  /\ UNCHANGED <<m_, calls>>

\* return: the lock_guard releases m_.
Return(t) ==
  /\ th[t].at = "ret"
  /\ m_' = NoThread
  /\ th' = [th EXCEPT ![t] = Idle]
  /\ UNCHANGED <<entries_, calls>>

Next ==
  \/ \E t \in Threads : Call(t)
  \/ \E t \in Threads : Lock(t)
  \/ \E t \in Threads : Lookup1(t)
  \/ \E t \in Threads : DoReadMaps(t)
  \/ \E t \in Threads : Lookup2(t)
  \/ \E t \in Threads : InitEntry(t)
  \/ \E t \in Threads : ValidEntry(t)
  \/ \E t \in Threads : BiasZero(t)
  \/ \E t \in Threads : Bias(t)
  \/ \E t \in Threads : RelPc(t)
  \/ \E t \in Threads : Borrow(t)
  \/ \E t \in Threads : Return(t)

Spec == Init /\ [][Next]_vars

\* A step of thread t inside find, m_ held.
Run(t) ==
  \/ Lookup1(t) \/ DoReadMaps(t) \/ Lookup2(t)
  \/ InitEntry(t) \/ ValidEntry(t) \/ BiasZero(t) \/ Bias(t)
  \/ RelPc(t) \/ Borrow(t) \/ Return(t)

\* Fair scheduling: a thread that can run inside find does, and a thread
\* waiting for m_ gets it if m_ is free again and again.
FairSpec ==
  /\ Spec
  /\ \A t \in Threads : WF_vars(Run(t)) /\ SF_vars(Lock(t))

\* The same program reading a source that is not held to the kernel's format.
NextAny ==
  \/ \E t \in Threads : Call(t)
  \/ \E t \in Threads : Lock(t)
  \/ \E t \in Threads : Lookup1(t)
  \/ \E t \in Threads : DoReadMapsAny(t)
  \/ \E t \in Threads : Lookup2(t)
  \/ \E t \in Threads : InitEntry(t)
  \/ \E t \in Threads : ValidEntry(t)
  \/ \E t \in Threads : BiasZero(t)
  \/ \E t \in Threads : Bias(t)
  \/ \E t \in Threads : RelPc(t)
  \/ \E t \in Threads : Borrow(t)
  \/ \E t \in Threads : Return(t)

SpecAny == Init /\ [][NextAny]_vars

(* ------------------------------------------------------------------ *)
(* Properties                                                          *)
(* ------------------------------------------------------------------ *)

\* The thread is at find's return statement, still holding m_.
AtRet(t) == th[t].at = "ret"

\* The positions of the stored entries with pc in [start, end).
Containing(pc) ==
  {i \in 1 .. Len(entries_) : entries_[i].start <= pc /\ pc < entries_[i].end}

\* C1: find(pc) returns the one stored entry with pc in [start, end), and
\* nullptr when no stored entry holds pc once the refresh has run.
C1_FindReturnsContaining ==
  \A t \in Threads :
    AtRet(t) =>
      /\ \A i \in 1 .. Len(entries_) : Containing(th[t].pc) = {i} => th[t].ret = i
      /\ Containing(th[t].pc) = {} => th[t].ret = 0

\* A call returns the entry whose start is pc.
C1_Witness ==
  \E t \in Threads :
    AtRet(t) /\ th[t].ret # 0 /\ entries_[th[t].ret].start = th[t].pc

\* The table holds exactly the two mappings of the scenario.
ScenarioTable ==
  /\ Len(entries_) = 2
  /\ \A i \in 1 .. 2 :
       LET e == entries_[i]
           l == Texts[1][i]
       IN  /\ e.start = l.start /\ e.end = l.end /\ e.offset = l.offset
           /\ e.name = l.name /\ e.flags = perm_flags(l.perms)

\* find(0x2500, rel_pc) returns in the scenario.
ScenarioReturn(t) ==
  AtRet(t) /\ ScenarioTable /\ th[t].pc = 9472 /\ th[t].want

\* C2 as stated: in the scenario find(0x2500) returns the entry of /lib/x.so
\* with relative offset 0x2500 and elf_start_offset 0.
C2_ScenarioAsStated ==
  \A t \in Threads :
    ScenarioReturn(t) =>
      /\ th[t].ret # 0
      /\ entries_[th[t].ret].name = "/lib/x.so"
      /\ th[t].rel = 9472
      /\ entries_[th[t].ret].elf_start_offset = 0

\* C2 amended: in the scenario find(0x2500) returns the entry of /lib/x.so
\* with elf_start_offset 0 and relative offset 0x2500 - 0x2000 + 0x1000 + 0 =
\* 0x1500: the header has no loadable segment at the file offset 0 of the
\* read-only mapping, so the borrowed load bias is 0.
C2_ScenarioAmended ==
  \A t \in Threads :
    ScenarioReturn(t) =>
      /\ th[t].ret = 2
      /\ entries_[2].name = "/lib/x.so"
      /\ th[t].rel_set /\ th[t].rel = 5376
      /\ entries_[2].elf_start_offset = 0
      /\ entries_[1].valid /\ entries_[1].load_bias = 0

C2_Witness == \E t \in Threads : ScenarioReturn(t)

\* The split-mapping case at a return of find(pc, rel_pc): E is the entry
\* returned, P the entry before it.
SplitCase(t) ==
  /\ AtRet(t) /\ th[t].want /\ th[t].ret > 1
  /\ LET E == entries_[th[t].ret]
         P == entries_[th[t].ret - 1]
     IN  /\ ~E.valid
         /\ HasFlag(P.flags, PROT_READ) /\ ~HasFlag(P.flags, PROT_EXEC)
         /\ P.offset < E.offset
         /\ P.name = E.name
         /\ P.valid

\* C3: in the split-mapping case the relative offset is
\* pc - E.start + E.offset + P.load_bias and E.elf_start_offset is P.offset.
C3_SplitMappingRule ==
  \A t \in Threads :
    SplitCase(t) =>
      LET E == entries_[th[t].ret]
          P == entries_[th[t].ret - 1]
      IN  /\ th[t].rel_set
          /\ th[t].rel = (th[t].pc - E.start + E.offset + P.load_bias) % AddrMod
          /\ E.elf_start_offset = P.offset

\* The split-mapping case with a bias of P that is not E's.
C3_Witness ==
  \E t \in Threads :
    /\ SplitCase(t)
    /\ entries_[th[t].ret - 1].load_bias # entries_[th[t].ret].load_bias

\* C4: at every return of find(pc, rel_pc) with an entry E outside the
\* split-mapping case the relative offset is pc - E.start + E.offset +
\* E.load_bias modulo the address width, and the load_bias of an entry that
\* is not valid is 0.
C4_OwnBiasOtherwise ==
  /\ \A t \in Threads :
       (AtRet(t) /\ th[t].want /\ th[t].ret # 0 /\ ~SplitCase(t)) =>
         LET E == entries_[th[t].ret]
         IN  /\ th[t].rel_set
             /\ th[t].rel = (th[t].pc - E.start + E.offset + E.load_bias) % AddrMod
  /\ \A i \in 1 .. Len(entries_) : ~entries_[i].valid => entries_[i].load_bias = 0

\* A return outside the split-mapping case only because the valid read-only
\* predecessor, whose bias is not 0, has another name.
C4_Witness ==
  \E t \in Threads :
    /\ AtRet(t) /\ th[t].want /\ th[t].ret > 1 /\ ~SplitCase(t)
    /\ LET E == entries_[th[t].ret]
           P == entries_[th[t].ret - 1]
       IN  /\ ~E.valid
           /\ P.flags = PROT_READ /\ P.offset < E.offset /\ P.valid
           /\ P.load_bias # 0
           /\ P.name # E.name

\* The step is thread t's call of ReadMaps.
RefreshStep(t) == th[t].at = "readmaps" /\ th'[t].at # "readmaps"

\* The step is a call of ReadMaps by t that fails on a malformed line.
MalformedRefreshStep(t) ==
  RefreshStep(t) /\ th'[t].read = "failed" /\ th'[t].source # Unavailable

Range(s) == {s[i] : i \in 1 .. Len(s)}

\* The first line of a text that parse_line rejects.
FirstBad(lines) == Min({k \in 1 .. Len(lines) : sscanf_count(lines[k]) < 2})

\* The entry was parsed from the line.
FromLine(e, l) ==
  /\ e.start = l.start /\ e.end = l.end /\ e.offset = l.offset
  /\ e.name = l.name /\ e.flags = perm_flags(l.perms)

Overlap(a, b) == a.start < b.end /\ b.start < a.end

\* C5 as stated: a refresh that fails on a malformed line leaves the set of
\* stored entries as it was.
C5_FailedRefreshCommitsNothing ==
  [][\A t \in Threads : MalformedRefreshStep(t) => entries_' = entries_]_vars

\* C5 amended: a refresh that fails on a malformed line changes or removes
\* no stored entry and commits no entry from the malformed line or a line
\* after it; every well-formed line before it that overlaps no stored entry
\* is committed.
C5_FailedRefreshCommitsPrefix ==
  [][\A t \in Threads :
       MalformedRefreshStep(t) =>
         LET lines == Texts[th'[t].source]
             bad   == FirstBad(lines)
         IN  /\ Range(entries_) \subseteq Range(entries_')
             /\ \A e \in Range(entries_') \ Range(entries_) :
                  \E k \in 1 .. bad - 1 : FromLine(e, lines[k])
             /\ \A k \in 1 .. bad - 1 :
                  (\A e \in Range(entries_) : ~Overlap(e, lines[k])) =>
                    \E e \in Range(entries_') : FromLine(e, lines[k])]_vars

\* The first call's refresh has failed on a malformed line and the table,
\* empty before, holds an entry.
C5_Witness ==
  \E t \in Threads :
    /\ th[t].at = "find2" /\ th[t].read = "failed" /\ th[t].source # Unavailable
    /\ calls = 1
    /\ Len(entries_) > 0

\* C6 as stated: find returns nullptr whenever its refresh failed.
C6_FailedRefreshNotFound ==
  \A t \in Threads : (AtRet(t) /\ th[t].read = "failed") => th[t].ret = 0

\* C6 amended: when the refresh fails because the source cannot be opened
\* find returns nullptr; when it fails on a malformed line find returns
\* nullptr unless pc lies in an entry committed from a well-formed line
\* before the malformed one, and then it returns that entry.
C6_FailedRefreshResult ==
  \A t \in Threads :
    (AtRet(t) /\ th[t].read = "failed") =>
      /\ th[t].source = Unavailable => th[t].ret = 0
      /\ th[t].ret # 0 =>
           LET lines == Texts[th[t].source]
           IN  \E k \in 1 .. FirstBad(lines) - 1 :
                 /\ FromLine(entries_[th[t].ret], lines[k])
                 /\ lines[k].start <= th[t].pc /\ th[t].pc < lines[k].end
      /\ th[t].ret = 0 => Containing(th[t].pc) = {}

\* A refresh failed on a malformed line and find returns an entry.
C6_Witness ==
  \E t \in Threads :
    AtRet(t) /\ th[t].read = "failed" /\ th[t].source # Unavailable /\ th[t].ret # 0

\* C7: a refresh leaves every stored entry stored with all its fields
\* unchanged, and no two stored entries have the same start.
C7_RefreshKeepsEntries ==
  [][\A t \in Threads :
       RefreshStep(t) =>
         /\ \A i \in 1 .. Len(entries_) :
              \E j \in 1 .. Len(entries_') : entries_'[j] = entries_[i]
         /\ \A j, k \in 1 .. Len(entries_') :
              j # k => entries_'[j].start # entries_'[k].start]_vars

\* A refresh has just read a line for the start address of an entry that was
\* validated before, and the entry has kept its bias.
C7_Witness ==
  \E t \in Threads :
    /\ th[t].at = "find2" /\ th[t].nread = 1 /\ th[t].source # Unavailable
    /\ \E i \in 1 .. Len(entries_) :
         /\ entries_[i].valid /\ entries_[i].load_bias # 0
         /\ \E k \in 1 .. Len(Texts[th[t].source]) :
              Texts[th[t].source][k].start = entries_[i].start

\* C8: the stored entries are in strictly ascending order of start and no
\* two of them overlap.
C8_SortedDisjoint ==
  \A i, j \in 1 .. Len(entries_) :
    i < j => /\ entries_[i].start < entries_[j].start
             /\ entries_[i].end <= entries_[j].start

\* A refresh has just read a line that overlaps a stored entry in part.
C8_Witness ==
  \E t \in Threads :
    /\ th[t].at = "find2" /\ th[t].nread = 1 /\ th[t].source # Unavailable
    /\ \E i \in 1 .. Len(entries_), k \in 1 .. Len(Texts[th[t].source]) :
         LET l == Texts[th[t].source][k]
         IN  /\ sscanf_count(l) = 4
             /\ Overlap(entries_[i], l)
             /\ entries_[i].start # l.start /\ entries_[i].end # l.end

\* The thread is between taking m_ and releasing it.
InFind(t) == th[t].at \notin {"idle", "lock"}

\* The entry is initialised in part: init is set and valid or load_bias is
\* not yet what init() leaves.
Partial(e) ==
  /\ e.init /\ HasFlag(e.flags, PROT_READ)
  /\ \/ e.valid # valid_elf(e)
     \/ e.load_bias # (IF valid_elf(e) THEN read_loadbias(e) ELSE 0)

\* C9: at most one thread is past the lock, and it holds m_; an entry is
\* initialised in part only while that thread is inside init() on it; a
\* thread at a lookup sees no entry initialised in part.
C9_SerializedUnderLock ==
  /\ \A t, u \in Threads : (InFind(t) /\ InFind(u)) => t = u
  /\ \A t \in Threads : InFind(t) <=> m_ = t
  /\ \A i \in 1 .. Len(entries_) :
       Partial(entries_[i]) =>
         \E t \in Threads :
           m_ = t /\ th[t].at \in {"valid", "bias0", "bias"} /\ th[t].tgt = i
  /\ \A t \in Threads :
       th[t].at \in {"find1", "find2"} =>
         \A i \in 1 .. Len(entries_) : ~Partial(entries_[i])

\* One thread is inside init() on an entry initialised in part while the
\* other waits for the lock.
C9_Witness ==
  \E t, u \in Threads :
    /\ t # u
    /\ th[u].at = "lock"
    /\ th[t].at \in {"valid", "bias0", "bias"}
    /\ Partial(entries_[th[t].tgt])

\* C10: a call of find refreshes at most once: after a first miss it has
\* refreshed once and looked up twice when it returns, and without a first
\* miss it has not refreshed.
C10_AtMostOneRefresh ==
  \A t \in Threads :
    /\ th[t].nread <= 1
    /\ th[t].nfind <= 2
    /\ AtRet(t) => /\ th[t].nfind = 2
                   /\ th[t].miss1 => th[t].nread = 1
                   /\ ~th[t].miss1 => th[t].nread = 0
                   /\ th[t].ret = 0 => th[t].miss1

\* A call missed, refreshed once, missed again and returns nullptr.
C10_Witness ==
  \E t \in Threads :
    AtRet(t) /\ th[t].miss1 /\ th[t].ret = 0 /\ th[t].nread = 1 /\ th[t].nfind = 2

\* The stored entry a read was made for.
EntryOf(r) == CHOOSE e \in Range(entries_) : e.start = r.of

\* C11: every read get_val has made was for a readable entry, at an address
\* that is a multiple of the size read, of bytes [addr, addr + size) that
\* lie in the entry's [start, end), the sum taken without wraparound.
C11_BoundsGate ==
  \A t \in Threads :
    \A k \in 1 .. Len(th[t].reads) :
      LET r == th[t].reads[k]
          e == EntryOf(r)
      IN  r.by = "get_val" =>
            /\ HasFlag(e.flags, PROT_READ)
            /\ e.start <= r.addr
            /\ r.addr + r.size <= e.end
            /\ r.addr % r.size = 0

\* The first SELFMAG bytes from the entry's start lie in its [start, end),
\* the sum taken without wraparound.
SignatureInside(e) == e.start + SELFMAG <= e.end

\* C12: an entry whose first SELFMAG bytes are not all in [start, end), or
\* are not the ELF signature, is never valid and its load_bias is 0; memcmp
\* is never run on bytes that are not all in the entry.
C12_ValidationGate ==
  /\ \A i \in 1 .. Len(entries_) :
       LET e == entries_[i]
       IN  (~SignatureInside(e) \/ ~HasMagic(e.start)) =>
             ~e.valid /\ e.load_bias = 0
  /\ \A t \in Threads :
       \A k \in 1 .. Len(th[t].reads) :
         th[t].reads[k].by = "memcmp" => SignatureInside(EntryOf(th[t].reads[k]))

\* find returns an initialised entry at whose start the signature is in
\* memory and start + SELFMAG is past the last address.
C12_Witness ==
  \E t \in Threads :
    /\ AtRet(t) /\ th[t].ret # 0
    /\ LET e == entries_[th[t].ret]
       IN  e.init /\ HasMagic(e.start) /\ e.start + SELFMAG >= AddrMod

\* The address of program header k of the image at the entry's start.
PhdrAt(e, k) == Wrap(e.start + Deref(Wrap(e.start + OFF_e_phoff)) + k * SIZEOF_Phdr)

\* get_val lets e_phnum and e_phoff be read.
EhdrReadable(e) ==
  /\ get_val(e, Wrap(e.start + OFF_e_phnum), SIZEOF_Half)
  /\ get_val(e, Wrap(e.start + OFF_e_phoff), SIZEOF_Off)

\* get_val lets p_type and p_offset of program header k be read.
PhdrReadable(e, k) ==
  /\ get_val(e, Wrap(PhdrAt(e, k) + OFF_p_type), SIZEOF_Word)
  /\ get_val(e, Wrap(PhdrAt(e, k) + OFF_p_offset), SIZEOF_Off)

\* Program header k is a PT_LOAD at the file offset of the entry's mapping.
PhdrMatches(e, k) ==
  /\ Deref(Wrap(PhdrAt(e, k) + OFF_p_type)) = PT_LOAD
  /\ Deref(Wrap(PhdrAt(e, k) + OFF_p_offset)) = e.offset

\* The program headers, among the first e_phnum, that match or that a
\* denied read keeps from being examined.
PhdrStops(e) ==
  {k \in 0 .. Deref(Wrap(e.start + OFF_e_phnum)) - 1 :
     ~PhdrReadable(e, k) \/ PhdrMatches(e, k)}

\* The load bias a validated entry is to have: the p_vaddr of the first
\* stopping header when that header matches and can be read, else 0.
ExpectedBias(e) ==
  IF ~EhdrReadable(e) \/ PhdrStops(e) = {} THEN 0
  ELSE LET k == Min(PhdrStops(e))
       IN  IF /\ PhdrReadable(e, k)
              /\ get_val(e, Wrap(PhdrAt(e, k) + OFF_p_vaddr), SIZEOF_Addr)
           THEN Wrap(Deref(Wrap(PhdrAt(e, k) + OFF_p_vaddr)))
           ELSE 0

\* A thread is inside read_loadbias on the entry at position i.
InReadLoadbias(i) ==
  \E t \in Threads : th[t].at \in {"bias0", "bias"} /\ th[t].tgt = i

\* C13: the load_bias read_loadbias leaves in a validated entry is the
\* p_vaddr of the first program header, among the first e_phnum, that is a
\* PT_LOAD at the entry's file offset, and 0 when there is none or get_val
\* denies a read on the way; no header after that one is read.
C13_LoadBias ==
  /\ \A i \in 1 .. Len(entries_) :
       (entries_[i].valid /\ ~InReadLoadbias(i)) =>
         entries_[i].load_bias = ExpectedBias(entries_[i])
  /\ \A t \in Threads :
       \A j \in 1 .. Len(th[t].reads) :
         LET r == th[t].reads[j]
             e == EntryOf(r)
         IN  r.by = "get_val" =>
               \/ r.addr \in {Wrap(e.start + OFF_e_phnum), Wrap(e.start + OFF_e_phoff)}
               \/ \E k \in 0 .. Deref(Wrap(e.start + OFF_e_phnum)) - 1 :
                    /\ \A k2 \in PhdrStops(e) : k <= k2
                    /\ r.addr \in {Wrap(PhdrAt(e, k) + OFF_p_type),
                                    Wrap(PhdrAt(e, k) + OFF_p_offset),
                                    Wrap(PhdrAt(e, k) + OFF_p_vaddr)}

\* find returns a validated entry whose load_bias comes from its second
\* program header, the first being a PT_LOAD at another file offset.
C13_Witness ==
  \E t \in Threads :
    /\ AtRet(t) /\ th[t].ret # 0
    /\ LET e == entries_[th[t].ret]
       IN  /\ e.valid /\ e.load_bias # 0
           /\ Min(PhdrStops(e)) = 1
           /\ Deref(Wrap(PhdrAt(e, 0) + OFF_p_type)) = PT_LOAD

\* A thread is inside init() on the entry at position i, past line 137.
InInit(i) ==
  \E t \in Threads : th[t].at \in {"valid", "bias0", "bias"} /\ th[t].tgt = i

\* C14: an entry with init set keeps init set; once init() has returned
\* its init, valid and load_bias are the same after every step; and
\* valid_elf is entered only on an entry whose init was not set.
C14_OneShotInit ==
  [][/\ \A i \in 1 .. Len(entries_) :
          entries_[i].init =>
            \E j \in 1 .. Len(entries_') :
              /\ entries_'[j].start = entries_[i].start
              /\ entries_'[j].end = entries_[i].end
              /\ entries_'[j].init
              /\ ~InInit(i) => /\ entries_'[j].valid = entries_[i].valid
                               /\ entries_'[j].load_bias = entries_[i].load_bias
     /\ \A t \in Threads :
          (th[t].at # "valid" /\ th'[t].at = "valid") =>
            ~entries_[th'[t].tgt].init]_vars

\* A later call of find returns an entry validated before, with a bias
\* that is not 0, without having read memory.
C14_Witness ==
  \E t \in Threads :
    /\ AtRet(t) /\ th[t].ret # 0 /\ ~th[t].miss1
    /\ entries_[th[t].ret].valid /\ entries_[th[t].ret].load_bias # 0
    /\ th[t].reads = <<>>

\* The lines of the texts whose permissions do not start with r.
UnreadableLines ==
  {l \in UNION {Range(Texts[src]) : src \in 1 .. Len(Texts)} :
     sscanf_count(l) = 4 /\ l.perms[1] # "r"}

\* The entry was parsed from a line whose permissions do not start with r.
FromUnreadableLine(e) == \E l \in UnreadableLines : FromLine(e, l)

\* C15: an entry parsed from a line whose permissions do not start with r
\* has init set, valid unset and load_bias 0 in every state, and no read
\* by memcmp or get_val is made for it or touches a byte of its range.
C15_UnreadableNeverRead ==
  \A i \in 1 .. Len(entries_) :
    LET e == entries_[i]
    IN  FromUnreadableLine(e) =>
          /\ e.init /\ ~e.valid /\ e.load_bias = 0
          /\ \A t \in Threads :
               \A k \in 1 .. Len(th[t].reads) :
                 LET r == th[t].reads[k]
                 IN  /\ r.of # e.start
                     /\ ~(r.addr < e.end /\ e.start < r.addr + r.size)

\* find(pc, rel_pc) returns an entry parsed from an unreadable line.
C15_Witness ==
  \E t \in Threads :
    /\ AtRet(t) /\ th[t].ret # 0 /\ th[t].want
    /\ ~HasFlag(entries_[th[t].ret].flags, PROT_READ)
    /\ FromUnreadableLine(entries_[th[t].ret])

\* The lines of a text that ReadMaps parses: those up to the first one
\* parse_line rejects.
LinesRead(lines) ==
  {k \in 1 .. Len(lines) : \A j \in 1 .. k : sscanf_count(lines[j]) >= 2}

\* C16 as stated: every stored entry has start < end.
C16_StartBelowEnd ==
  \A i \in 1 .. Len(entries_) : entries_[i].start < entries_[i].end

\* C16 amended: every entry a refresh stores has the start and the end of a
\* line it read, as the line gives them; when every stored entry and every
\* line read has start < end, every entry stored after the refresh has
\* start < end.
C16_StartEndAsInLine ==
  [][\A t \in Threads :
       (RefreshStep(t) /\ th'[t].source # Unavailable) =>
         LET lines == AllTexts[th'[t].source]
         IN  /\ \A e \in Range(entries_') \ Range(entries_) :
                  \E k \in LinesRead(lines) :
                    e.start = lines[k].start /\ e.end = lines[k].end
             /\ ( /\ \A e \in Range(entries_) : e.start < e.end
                  /\ \A k \in LinesRead(lines) : lines[k].start < lines[k].end )
                => \A e \in Range(entries_') : e.start < e.end]_vars

\* A refresh of a text whose lines all have start < end has stored entries
\* in a table that holds an entry with start >= end from an earlier refresh.
C16_Witness ==
  \E t \in Threads :
    /\ th[t].at = "find2" /\ th[t].nread = 1 /\ th[t].source \in 1 .. Len(Texts)
    /\ calls = 2
    /\ \E i \in 1 .. Len(entries_) : entries_[i].start >= entries_[i].end
    /\ \E i \in 1 .. Len(entries_) :
         /\ entries_[i].start < entries_[i].end
         /\ \E k \in LinesRead(Texts[th[t].source]) :
              FromLine(entries_[i], Texts[th[t].source][k])
         /\ \A k \in 1 .. Len(OddTexts[1]) : ~FromLine(entries_[i], OddTexts[1][k])

\* C17: when a stored entry holds pc at the first lookup, find does not
\* call ReadMaps: the lookup hits, the call makes no refresh and leaves the
\* stored ranges as they are, whatever the source shows by then, and the
\* entry of the second lookup, the one returned, is a stored entry holding pc.
C17_RefreshOnlyOnMiss ==
  [][\A t \in Threads :
       /\ (th[t].at = "find1" /\ th'[t] # th[t] /\ Containing(th[t].pc) # {}) =>
            th'[t].at = "find2" /\ ~th'[t].miss1
       /\ (InFind(t) /\ th[t].at # "find1" /\ ~th[t].miss1) =>
            /\ th'[t].at # "readmaps" /\ th'[t].nread = 0
            /\ Len(entries_') = Len(entries_)
            /\ \A i \in 1 .. Len(entries_) :
                 /\ entries_'[i].start = entries_[i].start
                 /\ entries_'[i].end = entries_[i].end
       /\ (th[t].at = "find2" /\ th'[t] # th[t] /\ ~th[t].miss1) =>
            th'[t].ret \in Containing(th[t].pc)]_vars

\* find returns, without a refresh, the stored entry of a mapping that
\* overlaps what other texts of the source show at pc: 2500h is in
\* /lib/old.so in the table and in /lib/x.so in two texts of the source.
C17_Witness ==
  \E t \in Threads :
    /\ AtRet(t) /\ ~th[t].miss1 /\ th[t].nread = 0 /\ th[t].ret # 0
    /\ th[t].pc = 9472
    /\ entries_[th[t].ret].name = "/lib/old.so"
    /\ \E src \in 1 .. Len(Texts) :
         \E k \in 1 .. Len(Texts[src]) :
           /\ sscanf_count(Texts[src][k]) = 4
           /\ Texts[src][k].start <= th[t].pc /\ th[t].pc < Texts[src][k].end
           /\ Texts[src][k].name # entries_[th[t].ret].name

\* The reads of p_type, one per iteration of the walk, among the reads of
\* thread t's call.
TypeReads(t) ==
  {k \in 1 .. Len(th[t].reads) :
     /\ th[t].reads[k].by = "get_val"
     /\ th[t].reads[k].size = SIZEOF_Word}

\* C18: under fair scheduling every call of find returns, which releases
\* m_; and the header walk of a call on an entry makes no more iterations
\* than the e_phnum of the entry's image.
C18_EveryCallReturns ==
  /\ \A t \in Threads : (th[t].at = "lock") ~> (th[t].at = "idle")
  /\ [](\A t \in Threads :
         \A e \in Range(entries_) :
           Cardinality({k \in TypeReads(t) : th[t].reads[k].of = e.start})
             <= Deref(Wrap(e.start + OFF_e_phnum)))

\* C19: a step of a call of find whose first lookup hit adds and removes
\* no entry and changes no start, end, offset, name or flags; it changes
\* init, valid or load_bias only inside init() on the entry found or, with
\* rel_pc given, on the entry before it when that one is read-only, at a
\* smaller offset and of the same name, and init() starts only on an entry
\* whose init is not set; it changes elf_start_offset only of the entry
\* found, at line 204 with rel_pc given and the entry before it valid, to
\* that entry's offset; line 204 leaves the found entry's load_bias as it is.
C19_LookupFrame ==
  [][\A t \in Threads :
       (InFind(t) /\ th[t].at # "find1" /\ ~th[t].miss1) =>
         /\ Len(entries_') = Len(entries_)
         /\ \A j \in 1 .. Len(entries_) :
              LET a == entries_[j]
                  b == entries_'[j]
              IN  /\ b.start = a.start /\ b.end = a.end /\ b.offset = a.offset
                  /\ b.name = a.name /\ b.flags = a.flags
                  /\ (b.init # a.init \/ b.valid # a.valid \/ b.load_bias # a.load_bias) =>
                       /\ th[t].at \in {"init", "valid", "bias0", "bias"}
                       /\ j = th[t].tgt
                       /\ th[t].at = "init" => ~a.init
                       /\ \/ j = th[t].ret
                          \/ /\ j = th[t].ret - 1
                             /\ th[t].want
                             /\ a.flags = PROT_READ
                             /\ a.offset < entries_[th[t].ret].offset
                             /\ a.name = entries_[th[t].ret].name
                  /\ b.elf_start_offset # a.elf_start_offset =>
                       /\ th[t].at = "borrow" /\ th[t].want
                       /\ j = th[t].ret
                       /\ entries_[j - 1].valid
                       /\ b.elf_start_offset = entries_[j - 1].offset
         /\ th[t].at = "borrow" =>
              entries_'[th[t].ret].load_bias = entries_[th[t].ret].load_bias]_vars

\* A call that hit on its first lookup has initialised the entry before the
\* one found, borrowed its bias, which is not the found entry's, and set the
\* found entry's elf_start_offset to an offset that is not 0.
C19_Witness ==
  \E t \in Threads :
    /\ SplitCase(t) /\ ~th[t].miss1
    /\ entries_[th[t].ret].elf_start_offset # 0
    /\ entries_[th[t].ret].load_bias # entries_[th[t].ret - 1].load_bias
    /\ \E k \in 1 .. Len(th[t].reads) :
         th[t].reads[k].of = entries_[th[t].ret - 1].start

====
